---- MODULE Spec2Model ----
(***************************************************************************)
(* A model of udyr's lexer (src/src/scanner.rs) and expression parser      *)
(* (src/src/parser.rs).                                                    *)
(*                                                                         *)
(* A source text is a sequence of characters; a character is a one-        *)
(* character string.  Rust's String is UTF-8: String::len and the slice    *)
(* source[a..b] count bytes, chars().nth(i) counts characters.  The model  *)
(* keeps both indexings apart (Width, byte_len, Slice versus Nth).         *)
(* A Rust panic (unwrap on None, a slice off a character boundary, an      *)
(* index out of bounds) ends the run: the scanner records it in its        *)
(* `panicked` flag, the parser in the result kind "Panic".                 *)
(***************************************************************************)
EXTENDS Naturals, Sequences, FiniteSets

VARIABLES scanner, parser, root, pc

vars == <<scanner, parser, root, pc>>

(***************************************************************************)
(* Characters                                                              *)
(***************************************************************************)
Digit == {"0", "1", "2", "3", "4", "5", "6", "7", "8", "9"}

Lower == {"a", "b", "c", "d", "e", "f", "g", "h", "i", "j", "k", "l", "m",
          "n", "o", "p", "q", "r", "s", "t", "u", "v", "w", "x", "y", "z"}

Upper == {"A", "B", "C", "D", "E", "F", "G", "H", "I", "J", "K", "L", "M",
          "N", "O", "P", "Q", "R", "S", "T", "U", "V", "W", "X", "Y", "Z"}

\* Characters whose UTF-8 encoding takes two bytes.
TwoByte == {"U+00E9"}

\* Option::None of chars().nth(i), and the '\0' that peek returns at the end.
None == "None"
NUL == "NUL"

\* char::len_utf8
Width(c) == IF c \in TwoByte THEN 2 ELSE 1

RECURSIVE byte_len(_)
\* String::len: the length of the text in bytes
byte_len(text) ==
    IF text = <<>> THEN 0 ELSE Width(Head(text)) + byte_len(Tail(text))

\* source.chars().nth(i): the i-th character (from 0), None past the last one
Nth(text, i) == IF i < Len(text) THEN text[i + 1] ELSE None

\* the byte offset at which character i (from 0) starts
ByteOffset(text, i) == byte_len(SubSeq(text, 1, i))

\* str::is_char_boundary
is_char_boundary(text, b) == \E i \in 0..Len(text) : ByteOffset(text, i) = b

CharIndex(text, b) == CHOOSE i \in 0..Len(text) : ByteOffset(text, i) = b

\* &source[a..b] panics unless a <= b and both are character boundaries
SliceOk(text, a, b) ==
    a <= b /\ is_char_boundary(text, a) /\ is_char_boundary(text, b)

\* &source[a..b], by byte offsets
Slice(text, a, b) == SubSeq(text, CharIndex(text, a) + 1, CharIndex(text, b))

is_digit(c) == c \in Digit

is_alpha(c) == c \in Lower \/ c \in Upper \/ c = "_"

is_alpha_numeric(c) == is_digit(c) \/ is_alpha(c)

(***************************************************************************)
(* Tokens and diagnostics                                                  *)
(***************************************************************************)
\* Token::new
Token_new(token_type, lexeme, literal, line) ==
    [token_type |-> token_type, lexeme |-> lexeme, literal |-> literal,
     line |-> line]

\* Token::empty
Token_empty ==
    [token_type |-> "None", lexeme |-> <<>>, literal |-> <<>>, line |-> 0]

\* report formats "[line {}] Error{}: {}": the three parts are kept apart
report(line, location, message) ==
    [line |-> line, location |-> location, message |-> message]

error(line, message) == report(line, "", message)

\* Scanner::new fills the keyword table
keywords ==
    { << <<"a", "n", "d">>, "AND" >>,
      << <<"c", "l", "a", "s", "s">>, "CLASS" >>,
      << <<"e", "l", "s", "e">>, "ELSE" >>,
      << <<"f", "a", "l", "s", "e">>, "FALSE" >>,
      << <<"f", "o", "r">>, "FOR" >>,
      << <<"f", "u", "n">>, "FUN" >>,
      << <<"i", "f">>, "IF" >>,
      << <<"n", "i", "l">>, "NIL" >>,
      << <<"o", "r">>, "OR" >>,
      << <<"p", "r", "i", "n", "t">>, "PRINT" >>,
      << <<"r", "e", "t", "u", "r", "n">>, "RETURN" >>,
      << <<"s", "u", "p", "e", "r">>, "SUPER" >>,
      << <<"t", "h", "i", "s">>, "THIS" >>,
      << <<"t", "r", "u", "e">>, "TRUE" >>,
      << <<"v", "a", "r">>, "VAR" >>,
      << <<"w", "h", "i", "l", "e">>, "WHILE" >> }

keywords_contains_key(text) == \E kw \in keywords : kw[1] = text

keywords_get(text) == (CHOOSE kw \in keywords : kw[1] = text)[2]

(***************************************************************************)
(* Scanner.  A scanner value s has the fields of struct Scanner (the       *)
(* keyword table is the constant above) and the flag `panicked`.           *)
(***************************************************************************)
\* Scanner::new
Scanner_new(source) ==
    [source |-> source, tokens |-> <<>>, errors |-> <<>>,
     start |-> 0, current |-> 0, line |-> 1, panicked |-> FALSE]

Panic(s) == [s EXCEPT !.panicked = TRUE]

is_at_end(s) == s.current >= byte_len(s.source)

\* peek: '\0' at the end, else chars().nth(current), None where unwrap panics
peek(s) == IF is_at_end(s) THEN NUL ELSE Nth(s.source, s.current)

peek_next(s) ==
    IF s.current + 1 >= byte_len(s.source) THEN NUL
    ELSE Nth(s.source, s.current + 1)

\* match_next reads chars().nth(current) unless at the end; it does not consume
match_next_panics(s) == ~is_at_end(s) /\ Nth(s.source, s.current) = None

match_next(s, expected) == ~is_at_end(s) /\ Nth(s.source, s.current) = expected

\* advance: unwrap chars().nth(current), then current += 1
advance(s) ==
    IF Nth(s.source, s.current) = None THEN Panic(s)
    ELSE [s EXCEPT !.current = @ + 1]

add_token(s, Type, literal) ==
    IF s.panicked THEN s
    ELSE IF ~SliceOk(s.source, s.start, s.current) THEN Panic(s)
    ELSE [s EXCEPT !.tokens =
            Append(@, Token_new(Type, Slice(s.source, s.start, s.current),
                                literal, s.line))]

add_empty_token(s, Type) == add_token(s, Type, <<>>)

\* the four arms '!', '=', '<', '>' of scan_token: the token is pushed first,
\* the second character is skipped afterwards
operator_token(s, Double, Single) ==
    IF match_next_panics(s) THEN Panic(s)
    ELSE IF match_next(s, "=")
    THEN LET t == add_empty_token(s, Double)
         IN  IF t.panicked THEN t ELSE [t EXCEPT !.current = @ + 1]
    ELSE add_empty_token(s, Single)

RECURSIVE comment_body(_)
\* while self.peek() != '\n' && !self.is_at_end() { self.advance(); }
comment_body(s) ==
    IF s.panicked THEN s
    ELSE IF peek(s) = None THEN Panic(s)
    ELSE IF peek(s) # "\n" /\ ~is_at_end(s) THEN comment_body(advance(s))
    ELSE s

\* the arm '/' of scan_token
slash_or_comment(s) ==
    IF match_next_panics(s) THEN Panic(s)
    ELSE IF match_next(s, "/") THEN comment_body([s EXCEPT !.current = @ + 1])
    ELSE add_empty_token(s, "SLASH")

RECURSIVE string_body(_)
\* the while loop of string
string_body(s) ==
    IF s.panicked THEN s
    ELSE IF peek(s) = None THEN Panic(s)
    ELSE IF peek(s) # "\"" /\ ~is_at_end(s)
    THEN string_body(advance(IF peek(s) = "\n"
                             THEN [s EXCEPT !.line = @ + 1] ELSE s))
    ELSE s

string(s) ==
    LET s1 == string_body(s)
        s2 == IF is_at_end(s1)
              THEN [s1 EXCEPT !.errors =
                        Append(@, error(s1.line, "Unterminated string!"))]
              ELSE s1
        s3 == advance(s2)    \* the closing "
    IN  IF s1.panicked THEN s1
        ELSE IF s3.panicked THEN s3
        ELSE IF ~SliceOk(s3.source, s3.start + 1, s3.current - 1) THEN Panic(s3)
        ELSE add_token(s3, "STRING",
                       Slice(s3.source, s3.start + 1, s3.current - 1))

RECURSIVE digits(_)
\* while is_digit(self.peek()) { self.advance(); }
digits(s) ==
    IF s.panicked THEN s
    ELSE IF peek(s) = None THEN Panic(s)
    ELSE IF is_digit(peek(s)) THEN digits(advance(s))
    ELSE s

\* number with the '.' taken whether or not a digit follows it
number_takes_any_dot(s) ==
    LET s1 == digits(s)
        s2 == IF peek(s1) = None THEN Panic(s1)
              ELSE IF peek(s1) # "." THEN s1
              ELSE digits(advance(s1))
    IN  IF s1.panicked THEN s1
        ELSE IF s2.panicked THEN s2
        ELSE IF ~SliceOk(s2.source, s2.start, s2.current) THEN Panic(s2)
        ELSE add_token(s2, "NUMBER", Slice(s2.source, s2.start, s2.current))

number(s) ==
    LET s1 == digits(s)
        s2 == IF peek(s1) = None THEN Panic(s1)
              ELSE IF peek(s1) # "." THEN s1
              ELSE IF peek_next(s1) = None THEN Panic(s1)
              ELSE IF is_digit(peek_next(s1)) THEN digits(advance(s1))
              ELSE s1
    IN  IF s1.panicked THEN s1
        ELSE IF s2.panicked THEN s2
        ELSE IF ~SliceOk(s2.source, s2.start, s2.current) THEN Panic(s2)
        ELSE add_token(s2, "NUMBER", Slice(s2.source, s2.start, s2.current))

RECURSIVE alpha_numerics(_)
\* while is_alpha_numeric(self.peek()) { self.advance(); }
alpha_numerics(s) ==
    IF s.panicked THEN s
    ELSE IF peek(s) = None THEN Panic(s)
    ELSE IF is_alpha_numeric(peek(s)) THEN alpha_numerics(advance(s))
    ELSE s

identifier(s) ==
    LET s1 == alpha_numerics(s)
        text == Slice(s1.source, s1.start, s1.current)
    IN  IF s1.panicked THEN s1
        ELSE IF ~SliceOk(s1.source, s1.start, s1.current) THEN Panic(s1)
        ELSE add_empty_token(s1, IF keywords_contains_key(text)
                                 THEN keywords_get(text) ELSE "IDENTIFIER")

\* scan_token: one lexeme, starting at s.current
scan_token(s) ==
    LET c == Nth(s.source, s.current)
        a == advance(s)
    IN  IF a.panicked THEN a
        ELSE CASE c = "(" -> add_empty_token(a, "LeftParen")
               [] c = ")" -> add_empty_token(a, "RightParen")
               [] c = "{" -> add_empty_token(a, "LeftBrace")
               [] c = "}" -> add_empty_token(a, "RightBrace")
               [] c = "," -> add_empty_token(a, "Comma")
               [] c = "." -> add_empty_token(a, "Dot")
               [] c = "-" -> add_empty_token(a, "Minus")
               [] c = "+" -> add_empty_token(a, "Plus")
               [] c = ";" -> add_empty_token(a, "SEMICOLON")
               [] c = "*" -> add_empty_token(a, "STAR")
               [] c = "!" -> operator_token(a, "BangEqual", "BANG")
               [] c = "=" -> operator_token(a, "EqualEqual", "EQUAL")
               [] c = "<" -> operator_token(a, "LessEqual", "LESS")
               [] c = ">" -> operator_token(a, "GreaterEqual", "GREATER")
               [] c = "/" -> slash_or_comment(a)
               [] c \in {" ", "\r", "\t"} -> a
               [] c = "\n" -> [a EXCEPT !.line = @ + 1]
               [] c = "\"" -> string(a)
               [] OTHER ->
                    IF is_digit(c) THEN number(a)
                    ELSE IF is_alpha(c) THEN identifier(a)
                    ELSE [a EXCEPT !.errors =
                            Append(@, error(a.line, "Unexpected character."))]

(***************************************************************************)
(* AST nodes and the parser.  A parser value p has the fields of struct    *)
(* Parser and `trace`, the values assigned to `current` so far, in order.  *)
(* A parse function returns res = "Ok" with a node, "Err" with a message,  *)
(* or "Panic", together with the parser it leaves behind.                  *)
(***************************************************************************)
\* Node::new
Node_new(node_type, children) ==
    [node_type |-> node_type, children |-> children, token |-> Token_empty]

NoNode == Node_new("None", <<>>)

\* Parser::new
Parser_new(tokens) == [tokens |-> tokens, current |-> 0, trace |-> <<0>>]

Ok(node, p) == [res |-> "Ok", node |-> node, err |-> "", p |-> p]

Err(err, p) == [res |-> "Err", node |-> NoNode, err |-> err, p |-> p]

\* the panic of self.tokens[self.current] with the index out of bounds
Abort(p) ==
    [res |-> "Panic", node |-> NoNode, err |-> "index out of bounds", p |-> p]

\* an assignment to self.current
set_current(p, c) == [p EXCEPT !.current = c, !.trace = Append(@, c)]

\* Parser::advance
Parser_advance(p) == set_current(p, p.current + 1)

\* self.tokens[self.current] panics when the index is out of bounds
in_bounds(p) == p.current < Len(p.tokens)

current_token(p) == p.tokens[p.current + 1]

OperatorTypes ==
    {"EqualEqual", "BangEqual", "LESS", "LessEqual", "GreaterEqual",
     "GREATER", "Plus", "Minus", "STAR", "SLASH"}

parse_operator(p, recurse) ==
    IF recurse = 0 THEN Err("Recursion error", p)
    ELSE IF ~in_bounds(p) THEN Abort(p)
    ELSE IF current_token(p).token_type \in OperatorTypes
    THEN Ok([Node_new("Operator", <<>>) EXCEPT !.token = current_token(p)],
            Parser_advance(p))
    ELSE Err("", p)

parse_literal(p, recurse) ==
    IF recurse = 0 THEN Err("Recursion error", p)
    ELSE IF ~in_bounds(p) THEN Abort(p)
    ELSE IF current_token(p).token_type \in {"NUMBER", "STRING"}
    THEN Ok([Node_new("Literal", <<>>) EXCEPT !.token = current_token(p)],
            Parser_advance(p))
    ELSE IF current_token(p).lexeme \in
                {<<"t", "r", "u", "e">>, <<"f", "a", "l", "s", "e">>,
                 <<"n", "i", "l">>}
    THEN Ok([Node_new("Literal", <<>>) EXCEPT !.token = current_token(p)],
            Parser_advance(p))
    ELSE Err("", p)

RECURSIVE parse_exspression(_, _)
RECURSIVE parse_grouping(_, _)
RECURSIVE parse_binary(_, _)
RECURSIVE parse_unary(_, _)

parse_exspression(p, recurse) ==
    IF recurse = 0 THEN Err("Recursion error", p)
    ELSE
    LET start == p.current
        binary == parse_binary(p, recurse - 1)
        group == parse_grouping(set_current(binary.p, start), recurse - 1)
        unary == parse_unary(set_current(group.p, start), recurse - 1)
        literal == parse_literal(set_current(unary.p, start), recurse - 1)
    IN  IF binary.res = "Panic" THEN binary
        ELSE IF binary.res = "Ok"
        THEN Ok(Node_new("Expression", <<binary.node>>), binary.p)
        ELSE IF group.res = "Panic" THEN group
        ELSE IF group.res = "Ok"
        THEN Ok(Node_new("Expression", <<group.node>>), group.p)
        ELSE IF unary.res = "Panic" THEN unary
        ELSE IF unary.res = "Ok"
        THEN Ok(Node_new("Expression", <<unary.node>>), unary.p)
        ELSE IF literal.res = "Panic" THEN literal
        ELSE IF literal.res = "Ok"
        THEN Ok(Node_new("Expression", <<literal.node>>), literal.p)
        ELSE Err(literal.err, set_current(literal.p, start))

parse_grouping(p, recurse) ==
    IF recurse = 0 THEN Err("Recursion error", p)
    ELSE IF ~in_bounds(p) THEN Abort(p)
    ELSE IF current_token(p).token_type # "LeftParen" THEN Err("", p)
    ELSE
    LET expr == parse_exspression(Parser_advance(p), recurse - 1)   \* "("
        after == Parser_advance(expr.p)                              \* ")"
    IN  IF expr.res = "Panic" THEN expr
        ELSE IF expr.res = "Ok"
        THEN Ok(Node_new("Grouping", <<expr.node>>), after)
        ELSE Err(expr.err, after)

parse_binary(p, recurse) ==
    IF recurse = 0 THEN Err("Recursion error", p)
    ELSE
    LET start == p.current
        expr1 == parse_exspression(p, recurse - 1)
        op == parse_operator(expr1.p, recurse - 1)
        expr2 == parse_exspression(op.p, recurse - 1)
    IN  IF expr1.res = "Panic" THEN expr1
        ELSE IF expr1.res = "Err"
        THEN Err(expr1.err, set_current(expr1.p, start))
        ELSE IF op.res = "Panic" THEN op
        ELSE IF op.res = "Err" THEN Err(op.err, set_current(op.p, start))
        ELSE IF expr2.res = "Panic" THEN expr2
        ELSE IF expr2.res = "Err"
        THEN Err(expr2.err, set_current(expr2.p, start))
        ELSE Ok(Node_new("Binary", <<expr1.node, op.node, expr2.node>>),
                expr2.p)

parse_unary(p, recurse) ==
    IF recurse = 0 THEN Err("Recursion error", p)
    ELSE IF ~in_bounds(p) THEN Abort(p)
    ELSE IF ~(current_token(p).token_type = "BANG"
              \/ current_token(p).token_type = "Minus") THEN Err("", p)
    ELSE
    LET start == p.current
        sign == current_token(p)
        expr == parse_exspression(Parser_advance(p), recurse - 1)
    IN  IF expr.res = "Panic" THEN expr
        ELSE IF expr.res = "Ok"
        THEN Ok([Node_new("Unary", <<expr.node>>) EXCEPT !.token = sign],
                expr.p)
        ELSE Err(expr.err, set_current(expr.p, start))

\* the recursion budget Parser::parse starts parse_exspression with
ParseRecurse == 5

\* Parser::parse: expr.unwrap() panics on Err
parse(p) ==
    LET expr == parse_exspression(p, ParseRecurse)
    IN  IF expr.res = "Ok"
        THEN Ok(Node_new("Program", <<expr.node>>), expr.p)
        ELSE [Abort(expr.p) EXCEPT !.err = expr.err]

(***************************************************************************)
(* Source texts the runs start from                                        *)
(***************************************************************************)
\* the longest text of ShortSources
MaxLen == 3

Alphabet == {"(", ")", "+", "-", "*", "/", ".", "!", "=", "<", "\"", "\n",
             " ", "1", "a", "_", "@", "U+00E9"}

\* every text of at most MaxLen characters of Alphabet
ShortSources == UNION {[1..n -> Alphabet] : n \in 0..MaxLen}

\* the operands and operators the expression texts are built from
LiteralTexts == {<<"1">>, <<"2">>, <<"n", "i", "l">>, <<"\"", "a", "\"">>}

OperatorTexts == {<<"+">>, <<"-">>, <<"*">>, <<"/">>, <<"<">>, <<"=", "=">>}

\* a op b op c, (a op b) op c, (a op b
ExprSources ==
    UNION { { a \o o1 \o b \o o2 \o c,
              <<"(">> \o a \o o1 \o b \o <<")">> \o o2 \o c,
              <<"(">> \o a \o o1 \o b } :
            <<a, b, c, o1, o2>> \in
                LiteralTexts \X LiteralTexts \X LiteralTexts
                    \X OperatorTexts \X OperatorTexts }

\* the texts of the scanner's and the parser's tests, and of the examples
ExampleSources ==
    { <<"*", "+", "}", "(", ".", ",", "-", ";">>,
      <<"<", "+", "<", "=", "+", "!", "+", "=", "=">>,
      <<"+", "/", "/", "h", "e", "l", "l", "o", "\n", "+">>,
      <<"/", "/", "h", "e", "l", "l", "o", "\n">>,
      <<"+", "\n", "-", "\n", "/", "/", "h", "e", "l", "l", "o", "\n", "/">>,
      <<"+", "\"", "H", "e", "l", "l", "o", "\"", "-",
        "\"", "H", "e", "l", "l", "o", "2", "\"">>,
      <<"1", "2", "3", "+", "1", "2", "3", ".", "1", "2", "3">>,
      <<"v", "a", "r", " ", "+", " ", "m", "y", "C", "l", "a", "s", "s", " ",
        "-", " ", "c", "l", "a", "s", "s", " ", "+", " ">>,
      <<"t", "r", "u", "e">>, <<"n", "i", "l">>, <<"1", "2", "3">>,
      <<"\"", "1", "2", "3", "\"">>,
      <<"-", "5">>, <<"!", "t", "r", "u", "e">>, <<"5", "+", "4">>,
      <<"1", ".">>, <<"1", ".", "5">>, <<"<", "=">>,
      <<"\"", "a", "b", "c">>, <<"\"", "a", "\n", "b">>,
      <<"1", "+", "2", "*", "3">>, <<"1", "-", "2", "-", "3">>,
      <<"(", "1", "+", "2", ")", "*", "3">>, <<"(", "1", "+", "2">>,
      <<"1", "+", "2", ")">>, <<"(", "1", ")", ")">>,
      <<"(", "(", "1", ")", ")">>, <<"(", "1", "+", "2", ")">>,
      <<"U+00E9", " ", "1", "+">> }

Sources == ShortSources \cup ExprSources \cup ExampleSources

(***************************************************************************)
(* The run: Scanner::new(source), scan_tokens, Parser::new(tokens), parse  *)
(***************************************************************************)
NoParser == Parser_new(<<>>)

NoRoot == [res |-> "None", node |-> NoNode, err |-> ""]

Init ==
    /\ scanner \in {Scanner_new(source) : source \in Sources}
    /\ parser = NoParser
    /\ root = NoRoot
    /\ pc = "scan_tokens"

\* one turn of the while loop of scan_tokens
ScanToken ==
    /\ pc = "scan_tokens"
    /\ ~is_at_end(scanner)
    /\ scanner' = scan_token([scanner EXCEPT !.start = scanner.current])
    /\ pc' = IF scanner'.panicked THEN "scan_panic" ELSE "scan_tokens"
    /\ UNCHANGED <<parser, root>>

\* the loop of scan_tokens ends: Ok(self.tokens.clone())
ScanReturn ==
    /\ pc = "scan_tokens"
    /\ is_at_end(scanner)
    /\ pc' = "scanned"
    /\ UNCHANGED <<scanner, parser, root>>

\* Parser::new on the tokens scan_tokens returned
NewParser ==
    /\ pc = "scanned"
    /\ parser' = Parser_new(scanner.tokens)
    /\ pc' = "parse"
    /\ UNCHANGED <<scanner, root>>

\* Parser::parse
Parse ==
    /\ pc = "parse"
    /\ LET r == parse(parser)
       IN  /\ parser' = r.p
           /\ root' = [res |-> r.res, node |-> r.node, err |-> r.err]
           /\ pc' = IF r.res = "Panic" THEN "parse_panic" ELSE "parsed"
    /\ UNCHANGED scanner

\* the recursion budget the parser's unit tests pass
TestRecurse == 10

\* parser.parse_unary(10).unwrap() on a parser fresh from Parser::new, as
\* test_unary_minus and test_unary_bang call it
ParseUnary ==
    /\ pc = "parse"
    /\ \E r \in {parse_unary(parser, TestRecurse)} :
           /\ parser' = r.p
           /\ root' = [res |-> r.res, node |-> r.node, err |-> r.err]
           /\ pc' = IF r.res = "Ok" THEN "unary_parsed" ELSE "unary_panic"
    /\ UNCHANGED scanner

Next == ScanToken \/ ScanReturn \/ NewParser \/ Parse \/ ParseUnary

Spec == Init /\ [][Next]_vars

(***************************************************************************)
(* Vocabulary of the properties                                            *)
(***************************************************************************)
ScanEnded == pc \notin {"scan_tokens", "scan_panic"}

ParseEnded == pc \in {"parsed", "parse_panic"}

\* the token a step of the scanner has just pushed
Pushed(s, t) == Len(t.tokens) = Len(s.tokens) + 1

LastToken(s) == s.tokens[Len(s.tokens)]

\* the characters a step of the scanner has read: from its first character
\* up to, not including, the character the next step starts at
Consumed(s, t) == SubSeq(s.source, s.current + 1, t.current)

\* the expression tree of section 3 of the specification that a node stands
\* for: Program and Expression nodes are wrappers around their only child,
\* a Binary node's operator is the token of its Operator child
RECURSIVE Ast(_)
Ast(n) ==
    CASE n.node_type \in {"Program", "Expression"} /\ Len(n.children) = 1 ->
            Ast(n.children[1])
      [] n.node_type = "Binary" /\ Len(n.children) = 3 ->
            [kind |-> "Binary", op |-> n.children[2].token,
             left |-> Ast(n.children[1]), right |-> Ast(n.children[3])]
      [] n.node_type = "Unary" /\ Len(n.children) = 1 ->
            [kind |-> "Unary", op |-> n.token, operand |-> Ast(n.children[1])]
      [] n.node_type = "Grouping" /\ Len(n.children) = 1 ->
            [kind |-> "Grouping", inner |-> Ast(n.children[1])]
      [] n.node_type = "Literal" -> [kind |-> "Literal", value |-> n.token]
      [] OTHER -> [kind |-> "None"]

Literal(tok) == [kind |-> "Literal", value |-> tok]

Binary(op, left, right) ==
    [kind |-> "Binary", op |-> op, left |-> left, right |-> right]

Grouping(inner) == [kind |-> "Grouping", inner |-> inner]

LiteralTypes == {"NUMBER", "STRING", "TRUE", "FALSE", "NIL"}

\* the token sequence is made of the token types given, in order
HasShape(tokens, types) ==
    /\ Len(tokens) = Len(types)
    /\ \A i \in 1..Len(types) : tokens[i].token_type \in types[i]

\* what a parse hands to its caller besides the tree: the message of the Err
\* it ends with, if it ends with one
parse_diagnostics == IF root.res \in {"Ok", "None"} THEN <<>> ELSE <<root.err>>

(***************************************************************************)
(* C1..C5: the scanner                                                     *)
(***************************************************************************)
\* C1: for every source text scan_tokens terminates normally: no step of the
\* scan panics, in particular none reads chars().nth(i) at or past the end of
\* the source.
C1_ScanNeverPanics == pc # "scan_panic"

\* the scanner is about to read an opening '"' that no later '"' closes
OpensUnterminated(s) ==
    /\ ~is_at_end(s)
    /\ Nth(s.source, s.current) = "\""
    /\ \A i \in (s.current + 1)..(Len(s.source) - 1) : s.source[i + 1] # "\""

UnterminatedMessages == {"Unterminated string", "Unterminated string!"}

\* C2: the step that scans a string literal which the end of input cuts short
\* records exactly one 'Unterminated string' diagnostic, at the line the
\* string opened on, pushes no token, and leaves the scanner at the end of the
\* input, not panicked, so that scan_tokens returns.
C2_UnterminatedString ==
    [][ (pc = "scan_tokens" /\ OpensUnterminated(scanner))
        => /\ pc' = "scan_tokens"
           /\ is_at_end(scanner')
           /\ scanner'.tokens = scanner.tokens
           /\ Len(scanner'.errors) = Len(scanner.errors) + 1
           /\ scanner'.errors[Len(scanner'.errors)].line = scanner.line
           /\ scanner'.errors[Len(scanner'.errors)].message
                  \in UnterminatedMessages ]_vars

Double(c) ==
    CASE c = "!" -> "BangEqual" [] c = "=" -> "EqualEqual"
      [] c = "<" -> "LessEqual" [] c = ">" -> "GreaterEqual"

Single(c) ==
    CASE c = "!" -> "BANG" [] c = "=" -> "EQUAL"
      [] c = "<" -> "LESS" [] c = ">" -> "GREATER"

\* C3: a step that starts at '!', '=', '<' or '>' pushes exactly one token:
\* when the next character is '=' the two-character kind, with both characters
\* consumed (so neither gets a token of its own), otherwise the
\* one-character kind with one character consumed.
C3_MaximalMunch ==
    [][ (/\ pc = "scan_tokens"
         /\ ~is_at_end(scanner)
         /\ Nth(scanner.source, scanner.current) \in {"!", "=", "<", ">"})
        => LET c == Nth(scanner.source, scanner.current)
               munch == Nth(scanner.source, scanner.current + 1) = "="
           IN  /\ Pushed(scanner, scanner')
               /\ SubSeq(scanner'.tokens, 1, Len(scanner.tokens))
                      = scanner.tokens
               /\ LastToken(scanner').token_type
                      = IF munch THEN Double(c) ELSE Single(c)
               /\ scanner'.current
                      = scanner.current + (IF munch THEN 2 ELSE 1) ]_vars

\* C4: the lexeme of every token pushed is the source text of the characters
\* the step consumed for it, from its first to its last; for a two-character
\* operator that is both characters.
C4_LexemeIsSourceText ==
    [][ (pc = "scan_tokens" /\ Pushed(scanner, scanner'))
        => LastToken(scanner').lexeme = Consumed(scanner, scanner') ]_vars

\* digits, or digits '.' digits, each run of digits non-empty
IsNumeral(text) ==
    \E k \in 1..Len(text) :
        /\ \A i \in 1..k : is_digit(text[i])
        /\ \/ k = Len(text)
           \/ /\ k + 1 < Len(text)
              /\ text[k + 1] = "."
              /\ \A i \in (k + 2)..Len(text) : is_digit(text[i])

\* no longer numeral starts where text[from..to) does: no digit follows, and
\* a following '.' is followed by no digit
IsLongest(text, from, to) ==
    /\ ~is_digit(Nth(text, to))
    /\ ~(Nth(text, to) = "." /\ is_digit(Nth(text, to + 1)))

\* C5: every NUMBER token is pushed for one or more digits optionally followed
\* by one '.' and one or more digits, the longest such text at that place, so
\* a '.' no digit follows is left for the next token; the text "1." scans as
\* NUMBER "1" then Dot, and "1.5" as one NUMBER with lexeme and literal "1.5".
C5_NumericLiteral ==
    /\ [][ (/\ pc = "scan_tokens"
            /\ Pushed(scanner, scanner')
            /\ LastToken(scanner').token_type = "NUMBER")
           => /\ IsNumeral(Consumed(scanner, scanner'))
              /\ IsLongest(scanner.source, scanner.current, scanner'.current)
          ]_vars
    /\ [][ (/\ pc = "scan_tokens"
            /\ Pushed(scanner, scanner')
            /\ is_digit(Nth(scanner.source, scanner.current)))
           => LastToken(scanner').token_type = "NUMBER" ]_vars
    /\ [](ScanEnded /\ scanner.source = <<"1", ".">>
            => scanner.tokens
                 = <<Token_new("NUMBER", <<"1">>, <<"1">>, 1),
                     Token_new("Dot", <<".">>, <<>>, 1)>>)
    /\ [](ScanEnded /\ scanner.source = <<"1", ".", "5">>
            => scanner.tokens
                 = <<Token_new("NUMBER", <<"1", ".", "5">>,
                               <<"1", ".", "5">>, 1)>>)

\* the text "1." has been scanned to the end: a NUMBER, then the Dot
C5_Witness ==
    /\ pc = "scanned"
    /\ scanner.source = <<"1", ".">>
    /\ Len(scanner.tokens) = 2
    /\ scanner.tokens[1].token_type = "NUMBER"
    /\ scanner.tokens[2].token_type = "Dot"

(***************************************************************************)
(* C6..C10: the parser                                                     *)
(***************************************************************************)
\* C6: the tokens of a + b * c (or a - b / c, ...) parse to the Binary of the
\* additive operator with left operand Literal(a) and right operand the
\* Binary of the multiplicative operator over Literal(b) and Literal(c), and
\* every token is consumed.
C6_Precedence ==
    (/\ ParseEnded
     /\ HasShape(parser.tokens, <<LiteralTypes, {"Plus", "Minus"},
                                  LiteralTypes, {"STAR", "SLASH"},
                                  LiteralTypes>>))
    => LET tk == parser.tokens
       IN  /\ pc = "parsed"
           /\ Ast(root.node)
                = Binary(tk[2], Literal(tk[1]),
                         Binary(tk[4], Literal(tk[3]), Literal(tk[5])))
           /\ parser.current = Len(tk)

\* the pairs of operator types of one precedence level
SameLevel ==
    ({"Plus", "Minus"} \X {"Plus", "Minus"})
        \cup ({"STAR", "SLASH"} \X {"STAR", "SLASH"})
        \cup ({"LESS", "LessEqual", "GREATER", "GreaterEqual"}
                \X {"LESS", "LessEqual", "GREATER", "GreaterEqual"})
        \cup ({"EqualEqual", "BangEqual"} \X {"EqualEqual", "BangEqual"})

\* C7: the tokens of a op1 b op2 c, op1 and op2 of one precedence level,
\* parse to the Binary of op2 whose left child is the Binary of op1 over
\* Literal(a) and Literal(b) and whose right child is Literal(c).
C7_LeftAssociative ==
    (/\ ParseEnded
     /\ HasShape(parser.tokens, <<LiteralTypes, OperatorTypes, LiteralTypes,
                                  OperatorTypes, LiteralTypes>>)
     /\ <<parser.tokens[2].token_type, parser.tokens[4].token_type>>
            \in SameLevel)
    => LET tk == parser.tokens
       IN  /\ pc = "parsed"
           /\ Ast(root.node)
                = Binary(tk[4],
                         Binary(tk[2], Literal(tk[1]), Literal(tk[3])),
                         Literal(tk[5]))

\* C8: the tokens of ( a op1 b ) op2 c parse to the Binary of op2 whose left
\* child is the Grouping of the whole inner expression, the Binary of op1
\* over Literal(a) and Literal(b), and whose right child is Literal(c); the
\* ')' is the token consumed as the closer.
C8_Grouping ==
    (/\ ParseEnded
     /\ HasShape(parser.tokens, <<{"LeftParen"}, LiteralTypes, OperatorTypes,
                                  LiteralTypes, {"RightParen"}, OperatorTypes,
                                  LiteralTypes>>))
    => LET tk == parser.tokens
       IN  /\ pc = "parsed"
           /\ Ast(root.node)
                = Binary(tk[6],
                         Grouping(Binary(tk[3], Literal(tk[2]),
                                         Literal(tk[4]))),
                         Literal(tk[7]))

\* C9: the tokens of ( a op b with no ')' parse to the end, with exactly one
\* diagnostic "Expect ')' after expression" and a Grouping node around the
\* inner expression parsed.
C9_UnclosedGrouping ==
    (/\ ParseEnded
     /\ HasShape(parser.tokens, <<{"LeftParen"}, LiteralTypes, OperatorTypes,
                                  LiteralTypes>>))
    => LET tk == parser.tokens
       IN  /\ pc = "parsed"
           /\ parse_diagnostics = <<"Expect ')' after expression">>
           /\ Ast(root.node)
                = Grouping(Binary(tk[3], Literal(tk[2]), Literal(tk[4])))

\* the token types an expression starts with
ExpressionStarts == LiteralTypes \cup {"LeftParen", "BANG", "Minus"}

\* C10: when the first token starts no expression, parse does not crash: it
\* returns a failure to its caller, with the diagnostic "Expect expression."
\* and no node.
C10_PrimaryFailure ==
    (/\ ParseEnded
     /\ parser.tokens # <<>>
     /\ parser.tokens[1].token_type \notin ExpressionStarts)
    => /\ pc = "parsed"
       /\ root.res = "Err"
       /\ root.node = NoNode
       /\ parse_diagnostics = <<"Expect expression.">>

(***************************************************************************)
(* C11..C16                                                                *)
(***************************************************************************)
\* the parse was ended by the panic of tokens[current], current >= len
ReadPastEnd == root.res = "Panic" /\ root.err = "index out of bounds"

\* C11: for every token sequence scan_tokens returns, the empty one
\* included, every read of the current token during Parser::parse is at a
\* position inside the sequence: no parse ends by indexing past the last
\* token.
C11_ReadsInsideTokens == (pc \in {"parsed", "parse_panic"}) => ~ReadPastEnd

\* C12: during Parser::parse the cursor starts at 0 and no assignment to it
\* makes it smaller: the values `current` takes, in order, never decrease.
C12_CursorNeverDecreases ==
    (pc \in {"parsed", "parse_panic"})
    => /\ parser.trace[1] = 0
       /\ \A i \in 1..(Len(parser.trace) - 1) :
              parser.trace[i] <= parser.trace[i + 1]

\* how far above ParseRecurse the larger maxima compared with it go
LargerRecurse == 2

\* the result and the tree of parse_exspression on the parser's tokens with
\* the recursion budget given
ParsedWith(recurse) ==
    LET r == parse_exspression(Parser_new(parser.tokens), recurse)
    IN  [res |-> r.res, node |-> r.node]

\* C13: the depth counter only bounds nesting: a token sequence either parses
\* with the maximum ParseRecurse as it does with every larger maximum, or its
\* parse fails with the diagnostic 'Exceeded maximum expression nesting'
\* handed to the caller.
C13_NestingGuard ==
    (pc \in {"parsed", "parse_panic"})
    => \/ \A k \in 1..LargerRecurse :
              ParsedWith(ParseRecurse + k) = ParsedWith(ParseRecurse)
       \/ /\ pc = "parsed"
          /\ root.res = "Err"
          /\ parse_diagnostics = <<"Exceeded maximum expression nesting">>

RECURSIVE Nodes(_)
\* a node and all the nodes below it
Nodes(n) ==
    {n} \cup UNION {Nodes(n.children[i]) : i \in 1..Len(n.children)}

\* C14: in every tree the parser returns, a Unary node's token is its '!' or
\* '-' token and a Binary node's token is the token of its binary operator,
\* never the empty placeholder token of kind None and line 0.
C14_OperatorTokenOnNode ==
    (pc = "parsed")
    => \A n \in Nodes(root.node) :
          /\ n.node_type = "Unary"
                => n.token.token_type \in {"BANG", "Minus"}
          /\ n.node_type = "Binary"
                => /\ n.token # Token_empty
                   /\ n.token.token_type \in OperatorTypes

\* the parser holds an operator '-' or '!' followed by one literal token
SignThenLiteral ==
    /\ Len(parser.tokens) = 2
    /\ parser.tokens[1].token_type \in {"Minus", "BANG"}
    /\ parser.tokens[2].token_type \in LiteralTypes

\* C15: on '-' or '!' followed by a single literal token, parse_unary with
\* budget 10 returns Ok with a Unary node whose token is the operator token
\* and whose only child is an Expression node whose only child is the Literal
\* node carrying the operand token.
C15_UnaryOfLiteral ==
    (pc \in {"unary_parsed", "unary_panic"} /\ SignThenLiteral)
    => /\ root.res = "Ok"
       /\ root.node.node_type = "Unary"
       /\ root.node.token = parser.tokens[1]
       /\ Len(root.node.children) = 1
       /\ LET e == root.node.children[1]
          IN  /\ e.node_type = "Expression"
              /\ Len(e.children) = 1
              /\ e.children[1].node_type = "Literal"
              /\ e.children[1].token = parser.tokens[2]

\* the number of newline characters among the first k characters of a source
NewlinesBefore(source, k) ==
    Cardinality({i \in 1..Len(source) : i <= k /\ source[i] = "\n"})

\* the step starts at the two slashes that open a line comment
StartsComment(s) ==
    Nth(s.source, s.current) = "/" /\ Nth(s.source, s.current + 1) = "/"

\* C16: every token the scanner pushes carries line = 1 + the number of
\* newlines in the source before the token's first character; the step that
\* reads a '//' comment pushes no token and stops at the comment's newline
\* (or at the end of the source) without counting it, and the step that
\* reads a newline adds exactly one to the line counter.
C16_LineTracking ==
    [][ScanToken =>
         /\ Pushed(scanner, scanner')
               => LastToken(scanner').line
                    = 1 + NewlinesBefore(scanner.source, scanner.current)
         /\ StartsComment(scanner)
               => /\ ~scanner'.panicked
                  /\ scanner'.tokens = scanner.tokens
                  /\ scanner'.line = scanner.line
                  /\ \A i \in (scanner.current + 1)..scanner'.current :
                         scanner.source[i] # "\n"
                  /\ \/ scanner'.current = Len(scanner.source)
                     \/ Nth(scanner.source, scanner'.current) = "\n"
         /\ Nth(scanner.source, scanner.current) = "\n"
               => scanner'.line = scanner.line + 1
      ]_vars

====
